---- MODULE Spec2Model ----
(***************************************************************************)
(* Partially persistent red-black tree (arvore rubro-negra com             *)
(* persistencia parcial): versioned nodes (no.py) and the tree built on    *)
(* them (arvore_rubro_negra.py).                                           *)
(*                                                                         *)
(* A node is a record of the heap `nos`; a node reference is its index in  *)
(* `nos` (identity), and None is the null reference.  Every operation that *)
(* mutates nodes takes the heap and returns the heap it leaves.            *)
(***************************************************************************)
EXTENDS Integers, Sequences, FiniteSets, Bags, TLC

VARIABLES nos, raizes, versao_atual, operacoes

vars == <<nos, raizes, versao_atual, operacoes>>

(* ---------------------------- bounds ----------------------------------- *)

\* Keys the driver inserts and removes are drawn from 1..MaxChave.
MaxChave == 3

\* The driver stops issuing mutations once versao_atual reaches MaxVersao.
MaxVersao == 5

\* Bounds of the insert-only specification.
MaxChaveInc == 6

MaxVersaoInc == 5

\* Bounds of the specification that inserts distinct keys, then removes.
MaxChaveFases == 6

MaxVersaoFases == 7

\* The specification with repeated inserts may make one more call.
MaxVersaoRepetida == 8

\* The long run: the driver makes MaxChamadas calls; the first MaxVersaoLivre
\* take any key, the later ones insert and remove key 1 in turn.
MaxChamadas == 99

MaxVersaoLivre == 2

\* Bounds of the specification that looks at the rewrites of incluir.
MaxChaveCasos == 7

MaxVersaoCasos == 4

\* Standalone node: versions written are 0..MaxVersaoNo, and at most
\* MaxEscritas method calls follow the constructor
MaxVersaoNo == 2
MaxEscritas == 2

\* Command lines: keys 1..MaxChaveLinhas, up to MaxVersaoLinhas mutations
MaxChaveLinhas == 3

MaxVersaoLinhas == 3

(* ---------------------------- constants -------------------------------- *)

\* Cor.VERMELHO.value / Cor.PRETO.value
VERMELHO == "R"

PRETO == "N"

\* The null node reference (Python None where a node is expected).
None == 0

\* versao_remocao of a node that was never removed (Python None).
SemRemocao == -1

\* Length of the roots table: [None] * 100
TamanhoRaizes == 100

(* ---------------------------- No (no.py) ------------------------------- *)

MaxDe(S) == CHOOSE m \in S : \A x \in S : x <= m

\* No._obter_versao_valida
ObterVersaoValida(versao, historico) ==
    LET versoes_disponiveis == {v \in DOMAIN historico : v <= versao}
    IN  IF versoes_disponiveis # {} THEN MaxDe(versoes_disponiveis) ELSE 0

\* dict.get(chave, padrao)
DictGet(historico, chave, padrao) ==
    IF chave \in DOMAIN historico THEN historico[chave] ELSE padrao

\* dict[chave] = valor
DictSet(historico, chave, valor) ==
    [v \in (DOMAIN historico) \cup {chave} |->
        IF v = chave THEN valor ELSE historico[v]]

\* lista[i] of a Python list held as a sequence (0-based index, a negative
\* index counts from the end)
ListaGet(lista, i) ==
    IF i >= 0 THEN lista[i + 1] ELSE lista[Len(lista) + i + 1]

\* lista[i] and lista[i] = x raise IndexError unless the index is in range.
IndiceValido(lista, i) == -Len(lista) <= i /\ i < Len(lista)

\* lista[i] = x taking the index as 1-based.
ListaSetBaseUm(lista, i, x) == [lista EXCEPT ![i] = x]

\* lista[i] = x
ListaSet(lista, i, x) ==
    IF i >= 0 THEN [lista EXCEPT ![i + 1] = x]
    ELSE [lista EXCEPT ![Len(lista) + i + 1] = x]

\* No.__init__
NovoNo(valor, cor, versao_criacao) ==
    [valor            |-> valor,
     versao_criacao   |-> versao_criacao,
     historico_cores  |-> (versao_criacao :> cor),
     historico_filhos |-> (versao_criacao :> <<None, None>>),
     historico_pais   |-> (versao_criacao :> None),
     versao_remocao   |-> SemRemocao]

\* No.obter_cor
ObterCor(h, no, versao) ==
    DictGet(h[no].historico_cores,
            ObterVersaoValida(versao, h[no].historico_cores), PRETO)

\* A colour write that keeps no history: the new entry replaces the dict.
DefinirCorSemHistorico(h, no, cor, versao) ==
    [h EXCEPT ![no].historico_cores = (versao :> cor)]

\* No.definir_cor
DefinirCor(h, no, cor, versao) ==
    [h EXCEPT ![no].historico_cores = DictSet(@, versao, cor)]

\* No.obter_filhos
ObterFilhos(h, no, versao) ==
    DictGet(h[no].historico_filhos,
            ObterVersaoValida(versao, h[no].historico_filhos), <<None, None>>)

\* No.obter_filho_esquerdo
ObterFilhoEsquerdo(h, no, versao) ==
    DictGet(h[no].historico_filhos,
            ObterVersaoValida(versao, h[no].historico_filhos), <<None, None>>)[1]

\* No.obter_filho_direito
ObterFilhoDireito(h, no, versao) ==
    DictGet(h[no].historico_filhos,
            ObterVersaoValida(versao, h[no].historico_filhos), <<None, None>>)[2]

\* definir_filho_esquerdo that stores the new left child with no right child.
DefinirFilhoEsquerdoSemDireito(h, no, filho, versao) ==
    [h EXCEPT ![no].historico_filhos = DictSet(@, versao, <<filho, None>>)]

\* No.definir_filho_esquerdo
DefinirFilhoEsquerdo(h, no, filho, versao) ==
    LET filhos_atuais == ObterFilhos(h, no, versao)
    IN  [h EXCEPT ![no].historico_filhos =
                        DictSet(@, versao, <<filho, filhos_atuais[2]>>)]

\* No.definir_filho_direito
DefinirFilhoDireito(h, no, filho, versao) ==
    LET filhos_atuais == ObterFilhos(h, no, versao)
    IN  [h EXCEPT ![no].historico_filhos =
                        DictSet(@, versao, <<filhos_atuais[1], filho>>)]

\* No.definir_filhos
DefinirFilhos(h, no, filho_esquerdo, filho_direito, versao) ==
    [h EXCEPT ![no].historico_filhos =
                  DictSet(@, versao, <<filho_esquerdo, filho_direito>>)]

\* No.obter_pai
ObterPai(h, no, versao) ==
    DictGet(h[no].historico_pais,
            ObterVersaoValida(versao, h[no].historico_pais), None)

\* No.definir_pai
DefinirPai(h, no, pai, versao) ==
    [h EXCEPT ![no].historico_pais = DictSet(@, versao, pai)]

\* esta_ativo taking the removal version itself as still active.
EstaAtivoAteRemocao(h, no, versao) ==
    /\ versao >= h[no].versao_criacao
    /\ (h[no].versao_remocao = SemRemocao \/ versao <= h[no].versao_remocao)

\* No.esta_ativo
EstaAtivo(h, no, versao) ==
    /\ versao >= h[no].versao_criacao
    /\ (h[no].versao_remocao = SemRemocao \/ versao < h[no].versao_remocao)

\* remover that stamps the version before the one given.
RemoverNoMarcaVersaoAnterior(h, no, versao) ==
    [h EXCEPT ![no].versao_remocao = versao - 1]

\* remover that records nothing.
RemoverNoMarcaSemEfeito(h, no, versao) == h

\* No.remover
RemoverNoMarca(h, no, versao) ==
    [h EXCEPT ![no].versao_remocao = versao]

(* ------------------ ArvoreRubroNegra: insertion ------------------------ *)

\* The left-left rewrite that gives the old local root the left-left
\* grandchild as its left child.
BalancearCasoEsquerdaEsquerdaNetoPartilhado(h, no, versao) ==
    LET filho_esquerdo == ObterFilhoEsquerdo(h, no, versao)
        neto_esq_esq   == ObterFilhoEsquerdo(h, filho_esquerdo, versao)
        filho_direito  == ObterFilhoDireito(h, no, versao)
        h1 == DefinirCor(h, filho_esquerdo, VERMELHO, versao)
        h2 == DefinirCor(h1, neto_esq_esq, PRETO, versao)
        h3 == DefinirCor(h2, no, PRETO, versao)
        h4 == DefinirFilhos(h3, filho_esquerdo, neto_esq_esq, no, versao)
        h5 == DefinirFilhos(h4, no, neto_esq_esq, filho_direito, versao)
        h7 == DefinirPai(h5, no, filho_esquerdo, versao)
        h8 == DefinirPai(h7, neto_esq_esq, filho_esquerdo, versao)
    IN  [h |-> h8, r |-> filho_esquerdo]

\* The left-left rewrite that leaves the left-left grandchild RED.
BalancearCasoEsquerdaEsquerdaNetoVermelho(h, no, versao) ==
    LET filho_esquerdo == ObterFilhoEsquerdo(h, no, versao)
        neto_esq_esq   == ObterFilhoEsquerdo(h, filho_esquerdo, versao)
        neto_esq_dir   == ObterFilhoDireito(h, filho_esquerdo, versao)
        filho_direito  == ObterFilhoDireito(h, no, versao)
        h1 == DefinirCor(h, filho_esquerdo, VERMELHO, versao)
        h3 == DefinirCor(h1, no, PRETO, versao)
        h4 == DefinirFilhos(h3, filho_esquerdo, neto_esq_esq, no, versao)
        h5 == DefinirFilhos(h4, no, neto_esq_dir, filho_direito, versao)
        h6 == IF neto_esq_dir # None
              THEN DefinirPai(h5, neto_esq_dir, no, versao) ELSE h5
        h7 == DefinirPai(h6, no, filho_esquerdo, versao)
        h8 == DefinirPai(h7, neto_esq_esq, filho_esquerdo, versao)
    IN  [h |-> h8, r |-> filho_esquerdo]

\* ArvoreRubroNegra._balancear_caso_esquerda_esquerda
BalancearCasoEsquerdaEsquerda(h, no, versao) ==
    LET filho_esquerdo == ObterFilhoEsquerdo(h, no, versao)
        neto_esq_esq   == ObterFilhoEsquerdo(h, filho_esquerdo, versao)
        neto_esq_dir   == ObterFilhoDireito(h, filho_esquerdo, versao)
        filho_direito  == ObterFilhoDireito(h, no, versao)
        h1 == DefinirCor(h, filho_esquerdo, VERMELHO, versao)
        h2 == DefinirCor(h1, neto_esq_esq, PRETO, versao)
        h3 == DefinirCor(h2, no, PRETO, versao)
        h4 == DefinirFilhos(h3, filho_esquerdo, neto_esq_esq, no, versao)
        h5 == DefinirFilhos(h4, no, neto_esq_dir, filho_direito, versao)
        h6 == IF neto_esq_dir # None
              THEN DefinirPai(h5, neto_esq_dir, no, versao) ELSE h5
        h7 == DefinirPai(h6, no, filho_esquerdo, versao)
        h8 == DefinirPai(h7, neto_esq_esq, filho_esquerdo, versao)
    IN  [h |-> h8, r |-> filho_esquerdo]

\* ArvoreRubroNegra._balancear_caso_esquerda_direita
BalancearCasoEsquerdaDireita(h, no, versao) ==
    LET filho_esquerdo == ObterFilhoEsquerdo(h, no, versao)
        neto_esq_dir   == ObterFilhoDireito(h, filho_esquerdo, versao)
        bisneto_esq    == ObterFilhoEsquerdo(h, neto_esq_dir, versao)
        bisneto_dir    == ObterFilhoDireito(h, neto_esq_dir, versao)
        filho_direito  == ObterFilhoDireito(h, no, versao)
        h1 == DefinirCor(h, neto_esq_dir, VERMELHO, versao)
        h2 == DefinirCor(h1, filho_esquerdo, PRETO, versao)
        h3 == DefinirCor(h2, no, PRETO, versao)
        h4 == DefinirFilhos(h3, neto_esq_dir, filho_esquerdo, no, versao)
        h5 == DefinirFilhos(h4, filho_esquerdo,
                            ObterFilhoEsquerdo(h4, filho_esquerdo, versao),
                            bisneto_esq, versao)
        h6 == DefinirFilhos(h5, no, bisneto_dir, filho_direito, versao)
        h7 == IF bisneto_esq # None
              THEN DefinirPai(h6, bisneto_esq, filho_esquerdo, versao) ELSE h6
        h8 == IF bisneto_dir # None
              THEN DefinirPai(h7, bisneto_dir, no, versao) ELSE h7
        h9 == DefinirPai(h8, filho_esquerdo, neto_esq_dir, versao)
        h10 == DefinirPai(h9, no, neto_esq_dir, versao)
    IN  [h |-> h10, r |-> neto_esq_dir]

\* ArvoreRubroNegra._balancear_caso_direita_esquerda
BalancearCasoDireitaEsquerda(h, no, versao) ==
    LET filho_direito  == ObterFilhoDireito(h, no, versao)
        neto_dir_esq   == ObterFilhoEsquerdo(h, filho_direito, versao)
        bisneto_esq    == ObterFilhoEsquerdo(h, neto_dir_esq, versao)
        bisneto_dir    == ObterFilhoDireito(h, neto_dir_esq, versao)
        filho_esquerdo == ObterFilhoEsquerdo(h, no, versao)
        h1 == DefinirCor(h, neto_dir_esq, VERMELHO, versao)
        h2 == DefinirCor(h1, no, PRETO, versao)
        h3 == DefinirCor(h2, filho_direito, PRETO, versao)
        h4 == DefinirFilhos(h3, neto_dir_esq, no, filho_direito, versao)
        h5 == DefinirFilhos(h4, no, filho_esquerdo, bisneto_esq, versao)
        h6 == DefinirFilhos(h5, filho_direito, bisneto_dir,
                            ObterFilhoDireito(h5, filho_direito, versao), versao)
        h7 == IF bisneto_esq # None
              THEN DefinirPai(h6, bisneto_esq, no, versao) ELSE h6
        h8 == IF bisneto_dir # None
              THEN DefinirPai(h7, bisneto_dir, filho_direito, versao) ELSE h7
        h9 == DefinirPai(h8, no, neto_dir_esq, versao)
        h10 == DefinirPai(h9, filho_direito, neto_dir_esq, versao)
    IN  [h |-> h10, r |-> neto_dir_esq]

\* The right-right case colouring the new local root BLACK and its two
\* children RED.
BalancearCasoDireitaDireitaRaizPreta(h, no, versao) ==
    LET filho_direito  == ObterFilhoDireito(h, no, versao)
        neto_dir_dir   == ObterFilhoDireito(h, filho_direito, versao)
        neto_dir_esq   == ObterFilhoEsquerdo(h, filho_direito, versao)
        filho_esquerdo == ObterFilhoEsquerdo(h, no, versao)
        h1 == DefinirCor(h, filho_direito, PRETO, versao)
        h2 == DefinirCor(h1, no, VERMELHO, versao)
        h3 == DefinirCor(h2, neto_dir_dir, VERMELHO, versao)
        h4 == DefinirFilhos(h3, filho_direito, no, neto_dir_dir, versao)
        h5 == DefinirFilhos(h4, no, filho_esquerdo, neto_dir_esq, versao)
        h6 == IF neto_dir_esq # None
              THEN DefinirPai(h5, neto_dir_esq, no, versao) ELSE h5
        h7 == DefinirPai(h6, no, filho_direito, versao)
        h8 == DefinirPai(h7, neto_dir_dir, filho_direito, versao)
    IN  [h |-> h8, r |-> filho_direito]

\* ArvoreRubroNegra._balancear_caso_direita_direita
BalancearCasoDireitaDireita(h, no, versao) ==
    LET filho_direito  == ObterFilhoDireito(h, no, versao)
        neto_dir_dir   == ObterFilhoDireito(h, filho_direito, versao)
        neto_dir_esq   == ObterFilhoEsquerdo(h, filho_direito, versao)
        filho_esquerdo == ObterFilhoEsquerdo(h, no, versao)
        h1 == DefinirCor(h, filho_direito, VERMELHO, versao)
        h2 == DefinirCor(h1, no, PRETO, versao)
        h3 == DefinirCor(h2, neto_dir_dir, PRETO, versao)
        h4 == DefinirFilhos(h3, filho_direito, no, neto_dir_dir, versao)
        h5 == DefinirFilhos(h4, no, filho_esquerdo, neto_dir_esq, versao)
        h6 == IF neto_dir_esq # None
              THEN DefinirPai(h5, neto_dir_esq, no, versao) ELSE h5
        h7 == DefinirPai(h6, no, filho_direito, versao)
        h8 == DefinirPai(h7, neto_dir_dir, filho_direito, versao)
    IN  [h |-> h8, r |-> filho_direito]

\* `x and x.obter_cor(versao) == Cor.VERMELHO`
EhVermelho(h, no, versao) ==
    no # None /\ ObterCor(h, no, versao) = VERMELHO

\* _balancear_apos_inclusao without its left-right case.
BalancearAposInclusaoSemEsquerdaDireita(h, no, versao) ==
    LET filho_esquerdo == ObterFilhoEsquerdo(h, no, versao)
        filho_direito  == ObterFilhoDireito(h, no, versao)
    IN  IF /\ EhVermelho(h, filho_esquerdo, versao)
           /\ EhVermelho(h, ObterFilhoEsquerdo(h, filho_esquerdo, versao), versao)
        THEN BalancearCasoEsquerdaEsquerda(h, no, versao)
        ELSE IF /\ EhVermelho(h, filho_direito, versao)
                /\ EhVermelho(h, ObterFilhoEsquerdo(h, filho_direito, versao), versao)
        THEN BalancearCasoDireitaEsquerda(h, no, versao)
        ELSE IF /\ EhVermelho(h, filho_direito, versao)
                /\ EhVermelho(h, ObterFilhoDireito(h, filho_direito, versao), versao)
        THEN BalancearCasoDireitaDireita(h, no, versao)
        ELSE [h |-> h, r |-> no]

\* ArvoreRubroNegra._balancear_apos_inclusao
BalancearAposInclusao(h, no, versao) ==
    LET filho_esquerdo == ObterFilhoEsquerdo(h, no, versao)
        filho_direito  == ObterFilhoDireito(h, no, versao)
    IN  IF /\ EhVermelho(h, filho_esquerdo, versao)
           /\ EhVermelho(h, ObterFilhoEsquerdo(h, filho_esquerdo, versao), versao)
        THEN BalancearCasoEsquerdaEsquerda(h, no, versao)
        ELSE IF /\ EhVermelho(h, filho_esquerdo, versao)
                /\ EhVermelho(h, ObterFilhoDireito(h, filho_esquerdo, versao), versao)
        THEN BalancearCasoEsquerdaDireita(h, no, versao)
        ELSE IF /\ EhVermelho(h, filho_direito, versao)
                /\ EhVermelho(h, ObterFilhoEsquerdo(h, filho_direito, versao), versao)
        THEN BalancearCasoDireitaEsquerda(h, no, versao)
        ELSE IF /\ EhVermelho(h, filho_direito, versao)
                /\ EhVermelho(h, ObterFilhoDireito(h, filho_direito, versao), versao)
        THEN BalancearCasoDireitaDireita(h, no, versao)
        ELSE [h |-> h, r |-> no]

\* The left branch of _incluir_recursivo without the definir_pai of the node
\* the call returned.
IncluirAEsquerdaSemPai(rec, no, versao) ==
    BalancearAposInclusao(DefinirFilhoEsquerdo(rec.h, no, rec.r, versao),
                          no, versao)

\* _incluir_recursivo after its recursive call on the left subtree returned
\* rec = [h: the heap it left, r: the node it returned]
IncluirAEsquerda(rec, no, versao) ==
    LET h1 == DefinirFilhoEsquerdo(rec.h, no, rec.r, versao)
        h2 == IF rec.r # None THEN DefinirPai(h1, rec.r, no, versao) ELSE h1
    IN  BalancearAposInclusao(h2, no, versao)

\* The right branch of _incluir_recursivo linking what the call returned as
\* the LEFT child.
IncluirADireitaComoEsquerda(rec, no, versao) ==
    IncluirAEsquerda(rec, no, versao)

\* _incluir_recursivo after its recursive call on the right subtree returned
IncluirADireita(rec, no, versao) ==
    LET h1 == DefinirFilhoDireito(rec.h, no, rec.r, versao)
        h2 == IF rec.r # None THEN DefinirPai(h1, rec.r, no, versao) ELSE h1
    IN  BalancearAposInclusao(h2, no, versao)

RECURSIVE IncluirRecursivo(_, _, _, _)
\* ArvoreRubroNegra._incluir_recursivo
IncluirRecursivo(h, no, valor, versao) ==
    IF no = None
    THEN [h |-> Append(h, NovoNo(valor, VERMELHO, versao)), r |-> Len(h) + 1]
    ELSE IF ~EstaAtivo(h, no, versao)
    THEN [h |-> Append(h, NovoNo(valor, VERMELHO, versao)), r |-> Len(h) + 1]
    ELSE IF valor < h[no].valor
    THEN IncluirAEsquerda(
             IncluirRecursivo(h, ObterFilhoEsquerdo(h, no, versao), valor, versao),
             no, versao)
    ELSE IF valor > h[no].valor
    THEN IncluirADireita(
             IncluirRecursivo(h, ObterFilhoDireito(h, no, versao), valor, versao),
             no, versao)
    ELSE [h |-> h, r |-> no]

\* the end of incluir / remover: force the new root (rec.r, in the heap rec.h)
\* BLACK at the new version, install it and advance versao_atual.  When the
\* roots table has no slot nova_versao, `self.raizes[nova_versao] = nova_raiz`
\* raises IndexError: the nodes keep what the call wrote, the table and
\* versao_atual keep their values.
InstalarRaiz(a, rec, nova_versao) ==
    [nos          |-> IF rec.r # None
                      THEN DefinirCor(rec.h, rec.r, PRETO, nova_versao)
                      ELSE rec.h,
     raizes       |-> IF IndiceValido(a.raizes, nova_versao)
                      THEN ListaSet(a.raizes, nova_versao, rec.r)
                      ELSE a.raizes,
     versao_atual |-> IF IndiceValido(a.raizes, nova_versao)
                      THEN nova_versao
                      ELSE a.versao_atual]

\* the end of incluir without forcing the new root BLACK.
InstalarRaizSemCor(a, rec, nova_versao) ==
    [nos          |-> rec.h,
     raizes       |-> ListaSet(a.raizes, nova_versao, rec.r),
     versao_atual |-> nova_versao]

\* the end of incluir, producing no version when no node was created.
InstalarRaizSeNova(a, rec, nova_versao) ==
    IF Len(rec.h) = Len(a.nos)
    THEN a
    ELSE InstalarRaiz(a, rec, nova_versao)

\* incluir without forcing the new root BLACK.
IncluirArvoreSemRaizPreta(a, valor) ==
    InstalarRaizSemCor(
        a,
        IncluirRecursivo(a.nos, ListaGet(a.raizes, a.versao_atual), valor, a.versao_atual + 1),
        a.versao_atual + 1)

\* incluir that produces no version when the key is already in the tree.
IncluirArvoreSemVersaoDuplicada(a, valor) ==
    InstalarRaizSeNova(
        a,
        IncluirRecursivo(a.nos, ListaGet(a.raizes, a.versao_atual), valor, a.versao_atual + 1),
        a.versao_atual + 1)

\* ArvoreRubroNegra.incluir, on the tree a = [nos, raizes, versao_atual]
IncluirArvore(a, valor) ==
    InstalarRaiz(
        a,
        IncluirRecursivo(a.nos, ListaGet(a.raizes, a.versao_atual), valor, a.versao_atual + 1),
        a.versao_atual + 1)

(* ------------------ ArvoreRubroNegra: removal -------------------------- *)

RECURSIVE EncontrarMinimo(_, _, _)
\* ArvoreRubroNegra._encontrar_minimo
EncontrarMinimo(h, no, versao) ==
    IF /\ no # None
       /\ ObterFilhoEsquerdo(h, no, versao) # None
       /\ EstaAtivo(h, ObterFilhoEsquerdo(h, no, versao), versao)
    THEN EncontrarMinimo(h, ObterFilhoEsquerdo(h, no, versao), versao)
    ELSE no

\* _corrigir_violacoes_remocao forcing BLACK every node it is given, parent or
\* not.
CorrigirViolacoesRemocaoSemPai(h, no, versao) ==
    IF no # None
    THEN [h |-> DefinirCor(h, no, PRETO, versao), r |-> no]
    ELSE [h |-> h, r |-> no]

\* ArvoreRubroNegra._corrigir_violacoes_remocao
CorrigirViolacoesRemocao(h, no, versao) ==
    IF no # None /\ ObterPai(h, no, versao) = None
    THEN [h |-> DefinirCor(h, no, PRETO, versao), r |-> no]
    ELSE [h |-> h, r |-> no]

\* ArvoreRubroNegra._balancear_apos_remocao
BalancearAposRemocao(h, no, versao) ==
    IF no = None
    THEN [h |-> h, r |-> None]
    ELSE CorrigirViolacoesRemocao(h, no, versao)

\* _remover_recursivo after its recursive call on the left subtree returned
RemoverAEsquerda(rec, no, versao) ==
    LET h1 == DefinirFilhoEsquerdo(rec.h, no, rec.r, versao)
        h2 == IF rec.r # None THEN DefinirPai(h1, rec.r, no, versao) ELSE h1
    IN  BalancearAposRemocao(h2, no, versao)

\* _remover_recursivo after its recursive call on the right subtree returned
RemoverADireita(rec, no, versao) ==
    LET h1 == DefinirFilhoDireito(rec.h, no, rec.r, versao)
        h2 == IF rec.r # None THEN DefinirPai(h1, rec.r, no, versao) ELSE h1
    IN  BalancearAposRemocao(h2, no, versao)

\* _remover_no (two children) after the successor was removed from the right
\* subtree: rec.r is nova_subarvore_direita
ReligarSubarvoreDireita(rec, no, versao) ==
    LET h2 == DefinirFilhoDireito(rec.h, no, rec.r, versao)
        h3 == IF rec.r # None THEN DefinirPai(h2, rec.r, no, versao) ELSE h2
    IN  [h |-> h3, r |-> no]

RECURSIVE RemoverRecursivo(_, _, _, _)
RECURSIVE RemoverNo(_, _, _)
\* ArvoreRubroNegra._remover_recursivo
RemoverRecursivo(h, no, valor, versao) ==
    IF no = None
    THEN [h |-> h, r |-> no]
    ELSE IF ~EstaAtivo(h, no, versao)
    THEN [h |-> h, r |-> no]
    ELSE IF valor < h[no].valor
    THEN RemoverAEsquerda(
             RemoverRecursivo(h, ObterFilhoEsquerdo(h, no, versao), valor, versao),
             no, versao)
    ELSE IF valor > h[no].valor
    THEN RemoverADireita(
             RemoverRecursivo(h, ObterFilhoDireito(h, no, versao), valor, versao),
             no, versao)
    ELSE RemoverNo(h, no, versao)

\* _remover_no that keeps the node it was given in the tree.
RemoverNoSemEfeito(h, no, versao) == [h |-> h, r |-> no]

\* ArvoreRubroNegra._remover_no
RemoverNo(h, no, versao) ==
    LET filho_esquerdo == ObterFilhoEsquerdo(h, no, versao)
        filho_direito  == ObterFilhoDireito(h, no, versao)
        sucessor == EncontrarMinimo(h, filho_direito, versao)
        h1 == [h EXCEPT ![no].valor = h[sucessor].valor]
    IN  IF filho_esquerdo = None
        THEN [h |-> RemoverNoMarca(h, no, versao), r |-> filho_direito]
        ELSE IF filho_direito = None
        THEN [h |-> RemoverNoMarca(h, no, versao), r |-> filho_esquerdo]
        ELSE ReligarSubarvoreDireita(
                 RemoverRecursivo(h1, filho_direito, h1[sucessor].valor, versao),
                 no, versao)

\* remover that installs the new root in the slot of the current version and
\* does not advance versao_atual.
RemoverArvoreSemNovaVersao(a, valor) ==
    InstalarRaiz(
        a,
        RemoverRecursivo(a.nos, ListaGet(a.raizes, a.versao_atual), valor, a.versao_atual + 1),
        a.versao_atual)

\* ArvoreRubroNegra.remover, on the tree a = [nos, raizes, versao_atual]
RemoverArvore(a, valor) ==
    InstalarRaiz(
        a,
        RemoverRecursivo(a.nos, ListaGet(a.raizes, a.versao_atual), valor, a.versao_atual + 1),
        a.versao_atual + 1)

(* ------------------ ArvoreRubroNegra: queries -------------------------- *)

\* A query that takes the version as given, whatever the current version.
VersaoConsultaSemLimite(a, versao) == versao

\* `if versao is None or versao > self.versao_atual: versao = self.versao_atual`
VersaoConsulta(a, versao) ==
    IF versao > a.versao_atual THEN a.versao_atual ELSE versao

RECURSIVE BuscarSucessorLaco(_, _, _, _, _)
\* the while loop of ArvoreRubroNegra.buscar_sucessor
BuscarSucessorLaco(h, atual, valor, versao, sucessor) ==
    IF atual # None /\ EstaAtivo(h, atual, versao)
    THEN IF h[atual].valor > valor
         THEN BuscarSucessorLaco(h, ObterFilhoEsquerdo(h, atual, versao),
                                 valor, versao, h[atual].valor)
         ELSE BuscarSucessorLaco(h, ObterFilhoDireito(h, atual, versao),
                                 valor, versao, sucessor)
    ELSE sucessor

\* ArvoreRubroNegra.buscar_sucessor; the result None (no successor) is None
BuscarSucessor(a, valor, versao) ==
    LET v == VersaoConsulta(a, versao)
    IN  BuscarSucessorLaco(a.nos, ListaGet(a.raizes, v), valor, v, None)

RECURSIVE PercorrerEmOrdemSemDescer(_, _, _, _)
\* _percorrer_em_ordem passing its own depth to the subtrees.
PercorrerEmOrdemSemDescer(h, no, versao, profundidade) ==
    IF no = None
    THEN <<>>
    ELSE IF ~EstaAtivo(h, no, versao)
    THEN <<>>
    ELSE PercorrerEmOrdemSemDescer(h, ObterFilhoEsquerdo(h, no, versao),
                                   versao, profundidade)
         \o <<<<h[no].valor, profundidade, ObterCor(h, no, versao)>>>>
         \o PercorrerEmOrdemSemDescer(h, ObterFilhoDireito(h, no, versao),
                                      versao, profundidade)

RECURSIVE PercorrerEmOrdem(_, _, _, _)
\* ArvoreRubroNegra._percorrer_em_ordem; returns what it appends to resultado,
\* each entry f"{valor},{profundidade},{cor}" as <<valor, profundidade, cor>>
PercorrerEmOrdem(h, no, versao, profundidade) ==
    IF no = None
    THEN <<>>
    ELSE IF ~EstaAtivo(h, no, versao)
    THEN <<>>
    ELSE LET filho_esquerdo == ObterFilhoEsquerdo(h, no, versao)
             filho_direito  == ObterFilhoDireito(h, no, versao)
             esq == IF filho_esquerdo # None
                    THEN PercorrerEmOrdem(h, filho_esquerdo, versao,
                                          profundidade + 1)
                    ELSE <<>>
             dir == IF filho_direito # None
                    THEN PercorrerEmOrdem(h, filho_direito, versao,
                                          profundidade + 1)
                    ELSE <<>>
         IN  esq \o <<<<h[no].valor, profundidade, ObterCor(h, no, versao)>>>>
                 \o dir

\* ArvoreRubroNegra.imprimir_arvore
ImprimirArvore(a, versao) ==
    LET v == VersaoConsulta(a, versao)
        raiz == ListaGet(a.raizes, v)
    IN  IF raiz # None THEN PercorrerEmOrdem(a.nos, raiz, v, 0) ELSE <<>>

(* ------------------ ProcessadorOperacoes: read commands ----------------- *)

\* `raiz = self.raizes[versao]` in buscar_sucessor / imprimir_arvore raises
\* IndexError: the only statement of a query that can raise.
ConsultaLevantaErro(a, versao) ==
    ~IndiceValido(a.raizes, VersaoConsulta(a, versao))

\* What processar_operacao returns when the command raised ValueError or
\* IndexError: the error is printed and the command has no output (None).
SaidaErro == [erro |-> TRUE, linhas |-> <<>>]

\* str(sucessor) or the literal "infinito"
LinhaSucessor(sucessor) ==
    IF sucessor # None
    THEN [infinito |-> FALSE, numero |-> sucessor]
    ELSE [infinito |-> TRUE, numero |-> None]

\* ProcessadorOperacoes._processar_sucessor for the line "SUC valor versao",
\* under the try / except of processar_operacao: the echo line and the
\* result line
ProcessarSucessor(a, valor, versao) ==
    IF ConsultaLevantaErro(a, versao)
    THEN SaidaErro
    ELSE [erro   |-> FALSE,
          linhas |-> <<<<"SUC", valor, versao>>,
                       LinhaSucessor(BuscarSucessor(a, valor, versao))>>]

\* ProcessadorOperacoes._processar_impressao for the line "IMP versao", under
\* the try / except of processar_operacao: the echo line and the entries
\* (joined by spaces in the output; no entry gives the empty line)
ProcessarImpressao(a, versao) ==
    IF ConsultaLevantaErro(a, versao)
    THEN SaidaErro
    ELSE [erro   |-> FALSE,
          linhas |-> <<<<"IMP", versao>>, ImprimirArvore(a, versao)>>]

(* ------------------ ProcessadorOperacoes: a command line --------------- *)

\* A token of linha.split(): a word that int() rejects, or the decimal text
\* of an integer
Palavra(texto) == [inteiro |-> FALSE, texto |-> texto, valor |-> None]

Numero(valor) == [inteiro |-> TRUE, texto |-> "", valor |-> valor]

\* int(parte): raises ValueError for a word
ParaInteiro(parte) == [erro |-> ~parte.inteiro, valor |-> parte.valor]

\* partes[0].upper()
Maiusculas(parte) ==
    IF parte.inteiro THEN "0"
    ELSE CASE parte.texto = "inc" -> "INC"
           [] parte.texto = "rem" -> "REM"
           [] parte.texto = "suc" -> "SUC"
           [] parte.texto = "imp" -> "IMP"
           [] OTHER -> parte.texto

\* processar_operacao returned None without raising: nothing is written.
SemSaida == [erro |-> FALSE, linhas |-> <<>>]

\* What a mutating command returns: None, or the error caught when
\* self.raizes[nova_versao] = ... raised IndexError inside the call
SaidaMutacao(a) ==
    IF IndiceValido(a.raizes, a.versao_atual + 1) THEN SemSaida ELSE SaidaErro

\* _processar_inclusao that takes partes[1] whatever the number of parts.
ProcessarInclusaoSemValidar(a, partes) ==
    IF Len(partes) < 2 \/ ParaInteiro(partes[2]).erro
    THEN [arvore |-> a, saida |-> SaidaErro]
    ELSE [arvore |-> IncluirArvore(a, ParaInteiro(partes[2]).valor),
          saida  |-> SaidaMutacao(a)]

\* ProcessadorOperacoes._processar_inclusao, under the try / except of
\* processar_operacao
ProcessarInclusao(a, partes) ==
    IF Len(partes) # 2 \/ ParaInteiro(partes[2]).erro
    THEN [arvore |-> a, saida |-> SaidaErro]
    ELSE [arvore |-> IncluirArvore(a, ParaInteiro(partes[2]).valor),
          saida  |-> SaidaMutacao(a)]

\* ProcessadorOperacoes._processar_remocao, under the try / except of
\* processar_operacao
ProcessarRemocao(a, partes) ==
    IF Len(partes) # 2 \/ ParaInteiro(partes[2]).erro
    THEN [arvore |-> a, saida |-> SaidaErro]
    ELSE [arvore |-> RemoverArvore(a, ParaInteiro(partes[2]).valor),
          saida  |-> SaidaMutacao(a)]

\* The checks of _processar_sucessor and _processar_impressao before the
\* query: the number of parts, then int() of each argument
ProcessarSucessorPartes(a, partes) ==
    IF \/ Len(partes) # 3
       \/ ParaInteiro(partes[2]).erro
       \/ ParaInteiro(partes[3]).erro
    THEN SaidaErro
    ELSE ProcessarSucessor(a, ParaInteiro(partes[2]).valor,
                           ParaInteiro(partes[3]).valor)

ProcessarImpressaoPartes(a, partes) ==
    IF Len(partes) # 2 \/ ParaInteiro(partes[2]).erro
    THEN SaidaErro
    ELSE ProcessarImpressao(a, ParaInteiro(partes[2]).valor)

\* processar_operacao whose read commands advance versao_atual.
ProcessarOperacaoConsultaAvanca(a, partes) ==
    IF partes = <<>> THEN [arvore |-> a, saida |-> SemSaida]
    ELSE CASE Maiusculas(partes[1]) = "INC" -> ProcessarInclusao(a, partes)
           [] Maiusculas(partes[1]) = "REM" -> ProcessarRemocao(a, partes)
           [] Maiusculas(partes[1]) = "SUC" ->
                 [arvore |-> [a EXCEPT !.versao_atual = @ + 1],
                  saida  |-> ProcessarSucessorPartes(a, partes)]
           [] Maiusculas(partes[1]) = "IMP" ->
                 [arvore |-> [a EXCEPT !.versao_atual = @ + 1],
                  saida  |-> ProcessarImpressaoPartes(a, partes)]
           [] OTHER -> [arvore |-> a, saida |-> SemSaida]

\* ProcessadorOperacoes.processar_operacao on partes = linha.split(): the
\* tree object after the command and what the command returns
ProcessarOperacao(a, partes) ==
    IF partes = <<>> THEN [arvore |-> a, saida |-> SemSaida]
    ELSE CASE Maiusculas(partes[1]) = "INC" -> ProcessarInclusao(a, partes)
           [] Maiusculas(partes[1]) = "REM" -> ProcessarRemocao(a, partes)
           [] Maiusculas(partes[1]) = "SUC" ->
                 [arvore |-> a, saida |-> ProcessarSucessorPartes(a, partes)]
           [] Maiusculas(partes[1]) = "IMP" ->
                 [arvore |-> a, saida |-> ProcessarImpressaoPartes(a, partes)]
           [] OTHER -> [arvore |-> a, saida |-> SemSaida]

(* ------------------ state machine -------------------------------------- *)

\* The tree object (ArvoreRubroNegra instance) held in the variables.
Arvore == [nos |-> nos, raizes |-> raizes, versao_atual |-> versao_atual]

\* The tree object after the step.
ArvoreSeguinte == [nos |-> nos', raizes |-> raizes', versao_atual |-> versao_atual']

\* ArvoreRubroNegra.__init__; operacoes is the log of the mutating calls made
\* so far (the lines INC / REM the driver has processed)
Init ==
    /\ nos = <<>>
    /\ raizes = [i \in 1..TamanhoRaizes |-> None]
    /\ versao_atual = 0
    /\ operacoes = <<>>

\* A mutating call returned: the tree object is `a`, and the call joins the log.
Passo(a, op) ==
    /\ nos' = a.nos
    /\ raizes' = a.raizes
    /\ versao_atual' = a.versao_atual
    /\ operacoes' = Append(operacoes, op)

\* ProcessadorOperacoes._processar_inclusao -> ArvoreRubroNegra.incluir(valor)
Incluir(valor) == Passo(IncluirArvore(Arvore, valor), <<"INC", valor>>)

\* ProcessadorOperacoes._processar_remocao -> ArvoreRubroNegra.remover(valor)
Remover(valor) == Passo(RemoverArvore(Arvore, valor), <<"REM", valor>>)

Chaves == 1..MaxChave

INC == \E valor \in Chaves : versao_atual < MaxVersao /\ Incluir(valor)

REM == \E valor \in Chaves : versao_atual < MaxVersao /\ Remover(valor)

Next == INC \/ REM

Spec == Init /\ [][Next]_vars

(* ------------------ observers used by the properties -------------------- *)

Versoes == 0..versao_atual

\* roots[v] of the tree in the variables.
Raiz(v) == ListaGet(raizes, v)

\* The keys of an in-order listing, in the order listed.
ChavesDe(lista) == [i \in 1..Len(lista) |-> lista[i][1]]

ConjuntoDe(seq) == {seq[i] : i \in 1..Len(seq)}

\* The multiset of the elements of a sequence.
BagDe(seq) ==
    [x \in ConjuntoDe(seq) |-> Cardinality({i \in 1..Len(seq) : seq[i] = x})]

EstritamenteCrescente(seq) ==
    \A i \in 1..(Len(seq) - 1) : seq[i] < seq[i + 1]

\* The keys listed for the latest version.
ChavesAtuais == ConjuntoDe(ChavesDe(ImprimirArvore(Arvore, versao_atual)))

\* The ordered set obtained by replaying the first v calls of the log on an
\* empty set (INC adds the key, REM deletes it): the keys whose last call
\* among the first v is an INC.
ConjuntoApos(ops, v) ==
    {k \in {ops[i][2] : i \in 1..v} :
        ops[MaxDe({i \in 1..v : ops[i][2] = k})][1] = "INC"}

\* The least element of S greater than k, None if there is none.
MenorMaiorQue(S, k) ==
    LET maiores == {x \in S : x > k}
    IN  IF maiores = {} THEN None
        ELSE CHOOSE m \in maiores : \A x \in maiores : m <= x

RECURSIVE NosDaSubarvore(_, _, _)
\* The nodes reachable from `no` through the child links effective at versao.
NosDaSubarvore(h, no, versao) ==
    IF no = None
    THEN {}
    ELSE {no} \cup NosDaSubarvore(h, ObterFilhoEsquerdo(h, no, versao), versao)
              \cup NosDaSubarvore(h, ObterFilhoDireito(h, no, versao), versao)

\* The nodes of the tree of version v.
NosDaVersao(a, v) == NosDaSubarvore(a.nos, ListaGet(a.raizes, v), v)

ChavesDaSubarvore(h, no, versao) ==
    {h[n].valor : n \in NosDaSubarvore(h, no, versao)}

\* Binary-search-tree order at every node of version v.
OrdemABB(a, v) ==
    \A n \in NosDaVersao(a, v) :
        /\ \A x \in ChavesDaSubarvore(a.nos, ObterFilhoEsquerdo(a.nos, n, v), v) :
              x < a.nos[n].valor
        /\ \A x \in ChavesDaSubarvore(a.nos, ObterFilhoDireito(a.nos, n, v), v) :
              x > a.nos[n].valor

\* No node of version v that is RED at v has a child that is RED at v.
RegraVermelha(a, v) ==
    \A n \in NosDaVersao(a, v) :
        ObterCor(a.nos, n, v) = VERMELHO =>
            /\ ~EhVermelho(a.nos, ObterFilhoEsquerdo(a.nos, n, v), v)
            /\ ~EhVermelho(a.nos, ObterFilhoDireito(a.nos, n, v), v)

RECURSIVE AlturasPretas(_, _, _)
\* The numbers of BLACK nodes on the paths from `no` down to a missing child.
AlturasPretas(h, no, versao) ==
    IF no = None
    THEN {0}
    ELSE LET abaixo == AlturasPretas(h, ObterFilhoEsquerdo(h, no, versao), versao)
                       \cup AlturasPretas(h, ObterFilhoDireito(h, no, versao), versao)
             p == IF ObterCor(h, no, versao) = PRETO THEN 1 ELSE 0
         IN  {x + p : x \in abaixo}

\* The call that made the step, when the step is a mutating call.
UltimaOperacao == operacoes'[Len(operacoes')]

PassoINC == operacoes' = Append(operacoes, <<"INC", UltimaOperacao[2]>>)

PassoREM == operacoes' = Append(operacoes, <<"REM", UltimaOperacao[2]>>)

(* ------------------ other specifications --------------------------------- *)

\* Only insert calls.
INCSomente ==
    \E valor \in 1..MaxChaveInc : versao_atual < MaxVersaoInc /\ Incluir(valor)

NextInc == INCSomente

SpecInc == Init /\ [][NextInc]_vars

SoInclusoes == \A i \in 1..Len(operacoes) : operacoes[i][1] = "INC"

\* Inserts of keys not yet present, then removes of present keys.
INCNova ==
    \E valor \in 1..MaxChaveFases :
        /\ versao_atual < MaxVersaoFases
        /\ SoInclusoes
        /\ valor \notin ChavesAtuais
        /\ Incluir(valor)

REMPresente ==
    \E valor \in 1..MaxChaveFases :
        /\ versao_atual < MaxVersaoFases
        /\ valor \in ChavesAtuais
        /\ Remover(valor)

NextFases == INCNova \/ REMPresente

SpecFases == Init /\ [][NextFases]_vars

\* As SpecFases, and right after a remove the driver may insert a key that
\* is already present.
INCRepetida ==
    \E valor \in 1..MaxChaveFases :
        /\ versao_atual < MaxVersaoRepetida
        /\ operacoes # <<>>
        /\ operacoes[Len(operacoes)][1] = "REM"
        /\ valor \in ChavesAtuais
        /\ Incluir(valor)

NextRepetida == INCNova \/ REMPresente \/ INCRepetida

SpecRepetida == Init /\ [][NextRepetida]_vars

\* The long run, up to the last slot of the roots table: inserts of keys
\* not in the tree and removes of keys in the tree.
INCLonga ==
    \E valor \in Chaves :
        /\ Len(operacoes) < MaxChamadas
        /\ versao_atual < MaxVersaoLivre \/ valor = 1
        /\ valor \notin ChavesAtuais
        /\ Incluir(valor)

REMLonga ==
    \E valor \in Chaves :
        /\ Len(operacoes) < MaxChamadas
        /\ versao_atual < MaxVersaoLivre \/ valor = 1
        /\ valor \in ChavesAtuais
        /\ Remover(valor)

NextLonga == INCLonga \/ REMLonga

SpecLonga == Init /\ [][NextLonga]_vars

(* ------------------ properties ------------------------------------------- *)

\* C1: old versions are immutable: for every version u below the current
\* one, the listing in_order(u) (keys, depths, colour codes) is the same
\* before and after a mutation.
C1_VersoesAntigasImutaveis ==
    [][\A u \in 0..(versao_atual - 1) :
          ImprimirArvore(ArvoreSeguinte, u) = ImprimirArvore(Arvore, u)]_vars

\* C2: after remove(k) of a key k listed at the current version V, the
\* listing of V still holds k and the listing of V+1 does not.
C2_RemocaoPreservaVersaoAnterior ==
    [][(PassoREM /\ UltimaOperacao[2] \in ChavesAtuais) =>
          /\ UltimaOperacao[2] \in
                ConjuntoDe(ChavesDe(ImprimirArvore(ArvoreSeguinte, versao_atual)))
          /\ UltimaOperacao[2] \notin
                ConjuntoDe(ChavesDe(ImprimirArvore(ArvoreSeguinte, versao_atual + 1)))
      ]_vars

\* C3: for every version v, the multiset of keys listed by in_order(v) is
\* the set obtained by replaying the first v mutating calls on an empty set,
\* whatever mutations came later.
C3_ChavesIgualReplay ==
    \A v \in Versoes :
        BagDe(ChavesDe(ImprimirArvore(Arvore, v)))
            = SetToBag(ConjuntoApos(operacoes, v))

\* C4: every version is a binary search tree with unique keys, so its
\* in-order listing is strictly ascending by key.
C4_ABBEstrita ==
    \A v \in Versoes :
        /\ OrdemABB(Arvore, v)
        /\ EstritamenteCrescente(ChavesDe(ImprimirArvore(Arvore, v)))

\* C5: successor(k, v) is the least key greater than k among the keys that
\* were in the set right after the v-th mutation, None if there is none.
C5_SucessorCorreto ==
    \A v \in Versoes : \A k \in 0..(MaxChave + 1) :
        BuscarSucessor(Arvore, k, v)
            = MenorMaiorQue(ConjuntoApos(operacoes, v), k)

\* C6: for every version v, roots[v] is empty or a node that is BLACK at v.
C6_RaizPreta ==
    \A v \in Versoes :
        Raiz(v) # None => ObterCor(nos, Raiz(v), v) = PRETO

\* C6 witness: one version got a new root from an insert that rebalanced at
\* the top of the tree, and one from a remove that promoted a child to root.
C6_Witness ==
    \E v \in 2..versao_atual : \E w \in 2..versao_atual :
        /\ operacoes[v][1] = "INC"
        /\ Raiz(v) # None /\ Raiz(v - 1) # None /\ Raiz(v) # Raiz(v - 1)
        /\ operacoes[w][1] = "REM"
        /\ Raiz(w) # None /\ Raiz(w - 1) # None /\ Raiz(w) # Raiz(w - 1)

\* C7: after insert calls only, no version has a RED node with a RED child.
C7_RegraVermelhaInclusoes ==
    \A v \in Versoes : RegraVermelha(Arvore, v)

\* C7 witness: a version produced by an insert whose rebalancing replaced the
\* root, holding a RED node, after inserts only.
C7_Witness ==
    /\ SoInclusoes
    /\ \E v \in 2..versao_atual :
          /\ Raiz(v) # Raiz(v - 1)
          /\ \E n \in NosDaVersao(Arvore, v) : ObterCor(nos, n, v) = VERMELHO

\* C8: after every mutation, in every version all paths from the root down
\* to a missing child carry the same number of BLACK nodes.
C8_AlturaPretaIgual ==
    \A v \in Versoes : Cardinality(AlturasPretas(nos, Raiz(v), v)) = 1

\* C9: whenever version V has no RED node with a RED child, the version V+1
\* produced by remove has none either.
C9_RemocaoMantemRegraVermelha ==
    [][(PassoREM /\ RegraVermelha(Arvore, versao_atual)) =>
          RegraVermelha(ArvoreSeguinte, versao_atual + 1)]_vars

\* The step is a call with no effect on the key set: an insert of a key
\* listed at the current version or a remove of a key not listed.
PassoSemEfeito ==
    \/ PassoINC /\ UltimaOperacao[2] \in ChavesAtuais
    \/ PassoREM /\ UltimaOperacao[2] \notin ChavesAtuais

\* C10 (as stated): a mutation with no effect leaves current_version
\* unchanged.
C10_SemEfeitoSemVersao ==
    [][PassoSemEfeito => versao_atual' = versao_atual]_vars

\* C10 (amended): a mutation with no effect still produces a new version:
\* current_version increases by exactly 1.
C10_SemEfeitoNovaVersao ==
    [][PassoSemEfeito => versao_atual' = versao_atual + 1]_vars

\* C10 witness: the latest call was an insert of a key already listed, or a
\* remove of a key not listed, at the version before it.
C10_Witness ==
    /\ versao_atual >= 3
    /\ \E i \in 2..Len(operacoes) : \E j \in 2..Len(operacoes) :
          /\ operacoes[i][1] = "INC"
          /\ operacoes[i][2] \in ConjuntoApos(operacoes, i - 1)
          /\ operacoes[j][1] = "REM"
          /\ operacoes[j][2] \notin ConjuntoApos(operacoes, j - 1)
          /\ ConjuntoApos(operacoes, j - 1) # {}

\* C11: insert(key) of a key listed at the current version leaves the tree
\* unchanged: the listing (keys, depths, colour codes) of the latest version
\* after the call is the listing of the latest version before it.
C11_InclusaoRepetidaSemMudanca ==
    [][(PassoINC /\ UltimaOperacao[2] \in ChavesAtuais) =>
          ImprimirArvore(ArvoreSeguinte, versao_atual')
              = ImprimirArvore(Arvore, versao_atual)]_vars

\* C12: remove(key) of a key not listed at the current version leaves the
\* tree unchanged: the listing (keys, depths, colour codes) of the latest
\* version after the call is the listing of the latest version before it.
C12_RemocaoAusenteSemMudanca ==
    [][(PassoREM /\ UltimaOperacao[2] \notin ChavesAtuais) =>
          ImprimirArvore(ArvoreSeguinte, versao_atual')
              = ImprimirArvore(Arvore, versao_atual)]_vars

\* C12 witness: the latest call removed a key that was not in the tree, and
\* the tree it walked holds a RED node.
C12_Witness ==
    /\ operacoes # <<>>
    /\ operacoes[Len(operacoes)][1] = "REM"
    /\ operacoes[Len(operacoes)][2]
          \notin ConjuntoApos(operacoes, Len(operacoes) - 1)
    /\ \E i \in 1..Len(ImprimirArvore(Arvore, versao_atual)) :
          ImprimirArvore(Arvore, versao_atual)[i][3] = VERMELHO

\* The step is an insert of a key not listed at the current version or a
\* remove of a key listed at it.
PassoEfetivo ==
    \/ PassoINC /\ UltimaOperacao[2] \notin ChavesAtuais
    \/ PassoREM /\ UltimaOperacao[2] \in ChavesAtuais

\* C13: current_version starts at 0 and never decreases; while it is below
\* the last slot of the roots table (99), every insert of an absent key and
\* every remove of a present key increases it by exactly 1, so after n such
\* calls (n <= 99) current_version = n, and roots[n] lists the keys the n
\* calls produce.
C13_VersaoContaMutacoes ==
    /\ [](Len(operacoes) <= TamanhoRaizes - 1 => versao_atual = Len(operacoes))
    /\ [][/\ versao_atual' >= versao_atual
          /\ (PassoEfetivo /\ versao_atual < TamanhoRaizes - 1) =>
                /\ versao_atual' = versao_atual + 1
                /\ ConjuntoDe(ChavesDe(ImprimirArvore(ArvoreSeguinte,
                                                      versao_atual + 1)))
                      = ConjuntoApos(operacoes', versao_atual + 1)]_vars

\* C13 witness: a run of calls, all of them inserts of absent keys or removes
\* of present keys, reached the last slot of the roots table.
C13_Witness ==
    /\ versao_atual = MaxChamadas
    /\ Len(operacoes) = MaxChamadas
    /\ Cardinality(ChavesAtuais) >= 2

\* C14: version 0 is the empty tree forever: after any calls roots[0] is
\* empty, in_order(0) is the empty sequence and successor(k, 0) is None for
\* every k.
C14_VersaoZeroVazia ==
    /\ Raiz(0) = None
    /\ ImprimirArvore(Arvore, 0) = <<>>
    /\ \A k \in 0..(MaxChave + 1) : BuscarSucessor(Arvore, k, 0) = None

\* C14 witness: inserts and a remove of a present key were made and the
\* latest version holds keys.
C14_Witness ==
    /\ versao_atual >= 3
    /\ ChavesAtuais # {}
    /\ \E i \in 2..Len(operacoes) :
          /\ operacoes[i][1] = "REM"
          /\ operacoes[i][2] \in ConjuntoApos(operacoes, i - 1)

\* Query versions beyond the latest one: just above it, and around the end of
\* the roots table.
VersoesAlem ==
    {v \in {versao_atual + 1, TamanhoRaizes - 1, TamanhoRaizes,
            TamanhoRaizes + 1} :
        v > versao_atual}

\* C15: a query with a version beyond the latest resolves to the latest: for
\* every v > current_version, also v >= 100, and every k, successor(k, v) =
\* successor(k, current_version) and in_order(v) = in_order(current_version),
\* and the query raises no error.
C15_VersaoAlemResolveUltima ==
    \A v \in VersoesAlem :
        /\ ~ConsultaLevantaErro(Arvore, v)
        /\ ImprimirArvore(Arvore, v) = ImprimirArvore(Arvore, versao_atual)
        /\ \A k \in 0..(MaxChave + 1) :
              BuscarSucessor(Arvore, k, v)
                  = BuscarSucessor(Arvore, k, versao_atual)

\* C15 witness: the tree is at the last slot of the roots table, holds keys,
\* and a successor query at version 100 finds one.
C15_Witness ==
    /\ versao_atual = TamanhoRaizes - 1
    /\ Cardinality(ChavesAtuais) >= 2
    /\ BuscarSucessor(Arvore, 0, TamanhoRaizes) # None

\* Negative query versions: the first one, and the two around minus the
\* length of the roots table.
VersoesNegativas == {-1, -TamanhoRaizes, -TamanhoRaizes - 1}

\* C16: a query with a negative version is an error: the commands SUC k v
\* and IMP v with v < 0 report an error and give no result line.
C16_VersaoNegativaErro ==
    \A v \in VersoesNegativas :
        /\ ProcessarImpressao(Arvore, v).erro
        /\ \A k \in 0..(MaxChave + 1) : ProcessarSucessor(Arvore, k, v).erro

\* C17: insert-then-remove round trip: in any reachable state where key k is
\* not listed at the current version, after the step insert(k) a remove(k)
\* made immediately yields a latest version whose key set is the key set
\* before the insert.
C17_IncluirRemoverRestauraChaves ==
    [][(PassoINC /\ UltimaOperacao[2] \notin ChavesAtuais) =>
          ConjuntoDe(ChavesDe(ImprimirArvore(
              RemoverArvore(ArvoreSeguinte, UltimaOperacao[2]),
              versao_atual' + 1)))
            = ChavesAtuais]_vars

\* C17 witness: the last two calls inserted a key that was not in the tree
\* and removed it again, and the tree held two other keys.
C17_Witness ==
    /\ Len(operacoes) >= 4
    /\ operacoes[Len(operacoes) - 1][1] = "INC"
    /\ operacoes[Len(operacoes)][1] = "REM"
    /\ operacoes[Len(operacoes)][2] = operacoes[Len(operacoes) - 1][2]
    /\ operacoes[Len(operacoes)][2]
          \notin ConjuntoApos(operacoes, Len(operacoes) - 2)
    /\ Cardinality(ConjuntoApos(operacoes, Len(operacoes) - 2)) = 2
    /\ ChavesAtuais = ConjuntoApos(operacoes, Len(operacoes) - 2)

\* The rewrite _balancear_apos_inclusao made at `no`, if it made one: res is
\* what it returned, esq and dir the children of `no` in the heap h it was
\* given.  The case is told by the node that became the local root; the
\* colours are those of the new local root and of its two children at versao.
Triangulo(res, no, esq, dir, h, versao) ==
    IF res.r = no
    THEN {}
    ELSE {[caso     |-> IF res.r = esq THEN "EE"
                        ELSE IF res.r = dir THEN "DD"
                        ELSE IF esq # None /\ res.r = ObterFilhoDireito(h, esq, versao)
                        THEN "ED"
                        ELSE "DE",
           raiz     |-> ObterCor(res.h, res.r, versao),
           esquerdo |-> IF ObterFilhoEsquerdo(res.h, res.r, versao) # None
                        THEN ObterCor(res.h, ObterFilhoEsquerdo(res.h, res.r, versao), versao)
                        ELSE "nenhum",
           direito  |-> IF ObterFilhoDireito(res.h, res.r, versao) # None
                        THEN ObterCor(res.h, ObterFilhoDireito(res.h, res.r, versao), versao)
                        ELSE "nenhum"]}

RECURSIVE TriangulosReescritos(_, _, _, _)
\* The rewrites made by _incluir_recursivo(no, valor, versao) on the heap h,
\* at every level of the recursion.
TriangulosReescritos(h, no, valor, versao) ==
    IF no = None
    THEN {}
    ELSE IF ~EstaAtivo(h, no, versao)
    THEN {}
    ELSE IF valor < h[no].valor
    THEN LET rec == IncluirRecursivo(h, ObterFilhoEsquerdo(h, no, versao),
                                     valor, versao)
         IN  TriangulosReescritos(h, ObterFilhoEsquerdo(h, no, versao),
                                  valor, versao)
             \cup Triangulo(IncluirAEsquerda(rec, no, versao), no, rec.r,
                            ObterFilhoDireito(rec.h, no, versao), rec.h, versao)
    ELSE IF valor > h[no].valor
    THEN LET rec == IncluirRecursivo(h, ObterFilhoDireito(h, no, versao),
                                     valor, versao)
         IN  TriangulosReescritos(h, ObterFilhoDireito(h, no, versao),
                                  valor, versao)
             \cup Triangulo(IncluirADireita(rec, no, versao), no,
                            ObterFilhoEsquerdo(rec.h, no, versao), rec.r,
                            rec.h, versao)
    ELSE {}

\* The rewrites incluir(valor) makes on the tree a.
TriangulosDaInclusao(a, valor) ==
    TriangulosReescritos(a.nos, ListaGet(a.raizes, a.versao_atual), valor,
                         a.versao_atual + 1)

\* Only insert calls, on a range of keys wide enough for one tree to take a
\* new key at each of the four places below its root's children.
INCCasos ==
    \E valor \in 1..MaxChaveCasos : versao_atual < MaxVersaoCasos /\ Incluir(valor)

NextCasos == INCCasos

SpecCasos == Init /\ [][NextCasos]_vars

\* The keys given to incluir to look at its rewrites.
ChavesSonda == 1..MaxChaveCasos

\* C18 (as stated): in each of the four rebalancing cases applied at version
\* V', the new local root is BLACK at V' and its two children are RED at V'.
C18_RaizLocalPretaFilhosVermelhos ==
    \A k \in ChavesSonda : \A t \in TriangulosDaInclusao(Arvore, k) :
        t.raiz = PRETO /\ t.esquerdo = VERMELHO /\ t.direito = VERMELHO

\* C18 (amended): in each of the four rebalancing cases applied at version
\* V', the new local root is RED at V' and its two children are BLACK at V'
\* (before the tree root is forced BLACK).
C18_RaizLocalVermelhaFilhosPretos ==
    \A k \in ChavesSonda : \A t \in TriangulosDaInclusao(Arvore, k) :
        t.raiz = VERMELHO /\ t.esquerdo = PRETO /\ t.direito = PRETO

\* C18 witness: a tree on which incluir applies each of the four cases,
\* depending on the key.
C18_Witness ==
    {t.caso : t \in UNION {TriangulosDaInclusao(Arvore, k) : k \in ChavesSonda}}
        = {"EE", "ED", "DE", "DD"}

RECURSIVE EmOrdemDosElos(_, _, _, _)
\* The left-root-right walk over the child links effective at versao, from
\* `no` at depth profundidade: one entry <<key, depth, colour at versao>> for
\* every node reached.
EmOrdemDosElos(h, no, versao, profundidade) ==
    IF no = None
    THEN <<>>
    ELSE EmOrdemDosElos(h, ObterFilhoEsquerdo(h, no, versao), versao,
                        profundidade + 1)
         \o <<<<h[no].valor, profundidade, ObterCor(h, no, versao)>>>>
         \o EmOrdemDosElos(h, ObterFilhoDireito(h, no, versao), versao,
                           profundidade + 1)

\* C19: the in-order dump is exact: for every version v, in_order(v) lists
\* every node reachable from roots[v] through the child links effective at v
\* exactly once, in left-root-right order, with its depth below roots[v] and
\* its colour code at v; and right after insert 2, 1, 3 (the shape of insert
\* 10, 5, 15) version 3 is 1,1,R 2,0,N 3,1,R.
C19_ListagemExata ==
    /\ \A v \in Versoes :
          /\ ImprimirArvore(Arvore, v) = EmOrdemDosElos(nos, Raiz(v), v, 0)
          /\ Len(ImprimirArvore(Arvore, v)) = Cardinality(NosDaVersao(Arvore, v))
    /\ operacoes = <<<<"INC", 2>>, <<"INC", 1>>, <<"INC", 3>>>> =>
          ImprimirArvore(Arvore, 3)
              = <<<<1, 1, VERMELHO>>, <<2, 0, PRETO>>, <<3, 1, VERMELHO>>>>

\* C19 witness: a version produced by the remove of one of three keys lists
\* its two nodes on two levels, and the latest version, produced later, lists
\* three nodes on three levels.
C19_Witness ==
    /\ \E v \in 1..(versao_atual - 1) :
          /\ operacoes[v][1] = "REM"
          /\ Cardinality(ConjuntoApos(operacoes, v - 1)) = 3
          /\ Len(ImprimirArvore(Arvore, v)) = 2
          /\ ImprimirArvore(Arvore, v)[1][2] # ImprimirArvore(Arvore, v)[2][2]
    /\ \E i \in 1..Len(ImprimirArvore(Arvore, versao_atual)) :
          ImprimirArvore(Arvore, versao_atual)[i][2] = 2

\* C20: a node's key is immutable after creation: across any insert or
\* remove call, the key (valor) held by every existing node stays the same.
C20_ChaveImutavel ==
    [][\A n \in 1..Len(nos) : nos'[n].valor = nos[n].valor]_vars

(* ------------------ a node on its own (no.py) --------------------------- *)

\* Versions a call on the standalone node writes, and versions it is read at
\* (one below the first and one above the last written)
VersoesEscritas == 0..MaxVersaoNo

VersoesLidas == -1..(MaxVersaoNo + 1)

\* What a child or parent argument can be: None or the second node
Vizinhos == {None, 2}

\* No(1, cor, versao_criacao) is the node the calls are made on, No(2) the
\* node passed as child or parent; the tree object stays as constructed, and
\* operacoes is here the log of the calls made on node 1, constructor first:
\* <<method, version, value stored>>
InitNo ==
    /\ \E cor \in {VERMELHO, PRETO}, versao_criacao \in 0..1 :
          /\ nos = <<NovoNo(1, cor, versao_criacao), NovoNo(2, VERMELHO, 0)>>
          /\ operacoes = <<<<"criar", versao_criacao, cor>>>>
    /\ raizes = [i \in 1..TamanhoRaizes |-> None]
    /\ versao_atual = 0

\* A method of node 1 returned: the heap is h, and the call joins the log.
PassoNo(h, chamada) ==
    /\ Len(operacoes) <= MaxEscritas
    /\ nos' = h
    /\ operacoes' = Append(operacoes, chamada)
    /\ UNCHANGED <<raizes, versao_atual>>

\* no.definir_cor(cor, versao)
NoDefinirCor ==
    \E cor \in {VERMELHO, PRETO}, versao \in VersoesEscritas :
        PassoNo(DefinirCor(nos, 1, cor, versao), <<"cor", versao, cor>>)

\* no.definir_filho_esquerdo(filho, versao)
NoDefinirFilhoEsquerdo ==
    \E filho \in Vizinhos, versao \in VersoesEscritas :
        PassoNo(DefinirFilhoEsquerdo(nos, 1, filho, versao),
                <<"filhos", versao,
                  <<filho, ObterFilhoDireito(nos, 1, versao)>>>>)

\* no.definir_filho_direito(filho, versao)
NoDefinirFilhoDireito ==
    \E filho \in Vizinhos, versao \in VersoesEscritas :
        PassoNo(DefinirFilhoDireito(nos, 1, filho, versao),
                <<"filhos", versao,
                  <<ObterFilhoEsquerdo(nos, 1, versao), filho>>>>)

\* no.definir_filhos(filho_esquerdo, filho_direito, versao)
NoDefinirFilhos ==
    \E filho_esquerdo \in Vizinhos, filho_direito \in Vizinhos,
       versao \in VersoesEscritas :
        PassoNo(DefinirFilhos(nos, 1, filho_esquerdo, filho_direito, versao),
                <<"filhos", versao, <<filho_esquerdo, filho_direito>>>>)

\* no.definir_pai(pai, versao)
NoDefinirPai ==
    \E pai \in Vizinhos, versao \in VersoesEscritas :
        PassoNo(DefinirPai(nos, 1, pai, versao), <<"pai", versao, pai>>)

\* no.remover(versao)
NoRemover ==
    \E versao \in VersoesEscritas :
        PassoNo(RemoverNoMarca(nos, 1, versao), <<"remover", versao, None>>)

NextNo ==
    \/ NoDefinirCor
    \/ NoDefinirFilhoEsquerdo
    \/ NoDefinirFilhoDireito
    \/ NoDefinirFilhos
    \/ NoDefinirPai
    \/ NoRemover

SpecNo == InitNo /\ [][NextNo]_vars

\* The value the log gives a field of node 1 at version v: that of the last
\* logged write among those at the greatest written version <= v (the
\* constructor writes `inicial` at the creation version), `padrao` if the
\* field was never written at or before v.
UltimoRegistrado(campo, inicial, v, padrao) ==
    LET idx == {i \in 1..Len(operacoes) :
                    /\ operacoes[i][1] \in {campo, "criar"}
                    /\ operacoes[i][2] <= v}
    IN  IF idx = {} THEN padrao
        ELSE LET vmax == MaxDe({operacoes[i][2] : i \in idx})
                 ult  == MaxDe({i \in idx : operacoes[i][2] = vmax})
             IN  IF operacoes[ult][1] = "criar" THEN inicial
                 ELSE operacoes[ult][3]

\* The call the step has just logged.
ChamadaFeita == operacoes'[Len(operacoes')]

\* The step is a call that wrote a versioned field of node 1.
PassoEscreveCampo ==
    /\ Len(operacoes') = Len(operacoes) + 1
    /\ ChamadaFeita[1] \in {"cor", "filhos", "pai"}

\* Node 1's field read at version u in heap h, and the history it is kept in
LeituraCampo(h, campo, u) ==
    CASE campo = "cor"    -> ObterCor(h, 1, u)
      [] campo = "filhos" -> ObterFilhos(h, 1, u)
      [] campo = "pai"    -> ObterPai(h, 1, u)

HistoricoCampo(h, campo) ==
    CASE campo = "cor"    -> h[1].historico_cores
      [] campo = "filhos" -> h[1].historico_filhos
      [] campo = "pai"    -> h[1].historico_pais

\* C21: versioned-node history rule: for every field (colour, left and right
\* child, parent) and every integer version v read, the value read is the one
\* last stored at the greatest recorded version <= v, and the default (BLACK,
\* no child, no parent) if no entry exists at or before v.
C21_LeituraPeloHistorico ==
    \A v \in VersoesLidas :
        /\ ObterCor(nos, 1, v)
              = UltimoRegistrado("cor", operacoes[1][3], v, PRETO)
        /\ ObterFilhoEsquerdo(nos, 1, v)
              = UltimoRegistrado("filhos", <<None, None>>, v, <<None, None>>)[1]
        /\ ObterFilhoDireito(nos, 1, v)
              = UltimoRegistrado("filhos", <<None, None>>, v, <<None, None>>)[2]
        /\ ObterPai(nos, 1, v) = UltimoRegistrado("pai", None, v, None)

\* C22 as stated: a node write at version v is pure with respect to every
\* other version: reading the written field at any u # v, earlier or later,
\* returns what it returned before the write.
C22_EscritaNaoAfetaOutrasVersoes ==
    [][PassoEscreveCampo =>
          \A u \in VersoesLidas \ {ChamadaFeita[2]} :
              LeituraCampo(nos', ChamadaFeita[1], u)
                  = LeituraCampo(nos, ChamadaFeita[1], u)]_vars

\* C22 amended: a node write at version v >= 0 leaves every earlier version
\* u in 0..v-1 reading what it read before; a later version u > v reads what
\* it read before only if the field already had an entry at some version w
\* with v < w <= u, and otherwise reads, like v itself, the value written.
C22_EscritaNaoAfetaVersoesAnteriores ==
    [][PassoEscreveCampo =>
          \A u \in 0..(MaxVersaoNo + 1) :
              IF \/ u < ChamadaFeita[2]
                 \/ \E w \in DOMAIN HistoricoCampo(nos, ChamadaFeita[1]) :
                        ChamadaFeita[2] < w /\ w <= u
              THEN LeituraCampo(nos', ChamadaFeita[1], u)
                      = LeituraCampo(nos, ChamadaFeita[1], u)
              ELSE LeituraCampo(nos', ChamadaFeita[1], u) = ChamadaFeita[3]]_vars

\* C22 witness: a node created at version 0 was recoloured at version 1 with
\* the other colour: version 0 still reads the first colour, version 2 reads
\* the new one.
C22_Witness ==
    /\ Len(operacoes) = 2
    /\ operacoes[1][1] = "criar" /\ operacoes[1][2] = 0
    /\ operacoes[2][1] = "cor" /\ operacoes[2][2] = 1
    /\ operacoes[2][3] # operacoes[1][3]
    /\ ObterCor(nos, 1, 0) = operacoes[1][3]
    /\ ObterCor(nos, 1, 2) = operacoes[2][3]

\* C23: a node is alive at v exactly when birth <= v and (death is unset or
\* v < death): after No.remover(d) it is alive at every v with
\* birth <= v < d, not alive at any v >= d, and never alive at v < birth.
C23_AtivoEntreCriacaoERemocao ==
    LET remocoes == {i \in 1..Len(operacoes) : operacoes[i][1] = "remover"}
    IN  \A v \in VersoesLidas :
            EstaAtivo(nos, 1, v) <=>
                /\ operacoes[1][2] <= v
                /\ \/ remocoes = {}
                   \/ v < operacoes[MaxDe(remocoes)][2]

\* C23 witness: the node was removed at a version d after its creation: it
\* is alive at d - 1, not alive at d, and not alive before its creation.
C23_Witness ==
    /\ Len(operacoes) = 2
    /\ operacoes[1][1] = "criar"
    /\ operacoes[2][1] = "remover"
    /\ operacoes[2][2] > operacoes[1][2]
    /\ EstaAtivo(nos, 1, operacoes[2][2] - 1)
    /\ ~EstaAtivo(nos, 1, operacoes[2][2])
    /\ ~EstaAtivo(nos, 1, operacoes[1][2] - 1)

\* C24: a node's death version is set once and never lowered: No.remover(v)
\* with v earlier than the death already recorded leaves the death unchanged.
C24_RemocaoNaoRecua ==
    [][(/\ Len(operacoes') = Len(operacoes) + 1
        /\ ChamadaFeita[1] = "remover"
        /\ nos[1].versao_remocao # SemRemocao
        /\ ChamadaFeita[2] < nos[1].versao_remocao)
          => nos'[1].versao_remocao = nos[1].versao_remocao]_vars

(* ------------------ command lines of every kind ------------------------- *)

ChavesLinhas == 1..MaxChaveLinhas

\* Well-formed mutating lines: "INC k", "REM k", in either case
LinhasMutacao ==
    {<<Palavra(op), Numero(k)>> :
        op \in {"INC", "REM", "inc", "rem"}, k \in ChavesLinhas}

\* Well-formed read lines: "SUC k v", "IMP v"
LinhasLeitura ==
    {<<Palavra("SUC"), Numero(k), Numero(v)>> :
        k \in 0..MaxChaveLinhas, v \in -1..(MaxVersaoLinhas + 1)}
    \cup {<<Palavra(op), Numero(v)>> :
            op \in {"IMP", "imp"}, v \in -1..(MaxVersaoLinhas + 1)}

\* Lines processar_operacao rejects: no token, an unknown keyword, a wrong
\* number of arguments, an argument that is not an integer
LinhasInvalidas ==
    {<<>>,
     <<Palavra("XYZ"), Numero(123)>>, <<Palavra("XYZ")>>,
     <<Numero(1), Numero(2)>>, <<Palavra("INSERT"), Numero(1)>>,
     <<Palavra("INC")>>, <<Palavra("INC"), Numero(1), Numero(2)>>,
     <<Palavra("INC"), Palavra("abc")>>, <<Palavra("inc"), Palavra("INC")>>,
     <<Palavra("REM")>>, <<Palavra("REM"), Numero(1), Numero(2)>>,
     <<Palavra("REM"), Palavra("abc")>>,
     <<Palavra("SUC")>>, <<Palavra("SUC"), Numero(1)>>,
     <<Palavra("SUC"), Palavra("abc"), Numero(1)>>,
     <<Palavra("SUC"), Numero(1), Palavra("abc")>>,
     <<Palavra("SUC"), Numero(1), Numero(1), Numero(1)>>,
     <<Palavra("IMP")>>, <<Palavra("IMP"), Palavra("abc")>>,
     <<Palavra("IMP"), Numero(1), Numero(1)>>}

\* A command that is no insert or remove call returned: the tree object is
\* `a`, and the log of calls stays as it is.
PassoSemChamada(a) ==
    /\ nos' = a.nos
    /\ raizes' = a.raizes
    /\ versao_atual' = a.versao_atual
    /\ UNCHANGED operacoes

\* processar_operacao on a well-formed INC / REM line
LinhaMutacao ==
    \E partes \in LinhasMutacao :
        /\ versao_atual < MaxVersaoLinhas
        /\ Passo(ProcessarOperacao(Arvore, partes).arvore,
                 <<Maiusculas(partes[1]), ParaInteiro(partes[2]).valor>>)

\* processar_operacao on a read line
LinhaLeitura ==
    \E partes \in LinhasLeitura :
        PassoSemChamada(ProcessarOperacao(Arvore, partes).arvore)

\* processar_operacao on a line it rejects
LinhaInvalida ==
    \E partes \in LinhasInvalidas :
        PassoSemChamada(ProcessarOperacao(Arvore, partes).arvore)

NextLinhas == LinhaMutacao \/ LinhaLeitura \/ LinhaInvalida

SpecLinhas == Init /\ [][NextLinhas]_vars

\* C25: driver commands that are unrecognized or malformed (unknown keyword,
\* wrong number of arguments, non-integer argument) return no output and
\* leave current_version and every version's contents unchanged; the read
\* commands SUC and IMP leave them unchanged too.
C25_ComandoInvalidoSemEfeito ==
    /\ \A partes \in LinhasInvalidas :
          /\ ProcessarOperacao(Arvore, partes).arvore = Arvore
          /\ ProcessarOperacao(Arvore, partes).saida.linhas = <<>>
    /\ \A partes \in LinhasLeitura :
          ProcessarOperacao(Arvore, partes).arvore = Arvore

\* C25 witness: a tree of several versions without key 1, where "INC 1 2"
\* and "REM 2 x" are rejected with no output although "INC 1" and "REM 2"
\* would change the tree, and "SUC 1 v" answers from the latest version.
C25_Witness ==
    /\ versao_atual >= 2
    /\ ChavesAtuais = {2, 3}
    /\ ProcessarOperacao(Arvore, <<Palavra("INC"), Numero(1), Numero(2)>>)
          = [arvore |-> Arvore, saida |-> SaidaErro]
    /\ ProcessarOperacao(Arvore, <<Palavra("REM"), Palavra("abc")>>)
          = [arvore |-> Arvore, saida |-> SaidaErro]
    /\ ProcessarOperacao(Arvore, <<Palavra("INC"), Numero(1)>>).arvore # Arvore
    /\ ProcessarOperacao(Arvore,
                         <<Palavra("SUC"), Numero(1), Numero(versao_atual)>>)
          = [arvore |-> Arvore,
             saida  |-> [erro   |-> FALSE,
                         linhas |-> <<<<"SUC", 1, versao_atual>>,
                                      LinhaSucessor(2)>>]]

\* C26: when the version table is full (current_version = 99) an insert or
\* remove fails with an error and leaves current_version and the results of
\* in_order(v) and successor(k, v) for every v <= current_version unchanged.
C26_TabelaCheiaChamadaSemEfeito ==
    versao_atual = TamanhoRaizes - 1 =>
        \A partes \in LinhasMutacao :
            LET r == ProcessarOperacao(Arvore, partes)
            IN  /\ r.saida = SaidaErro
                /\ r.arvore.versao_atual = versao_atual
                /\ \A v \in 0..versao_atual :
                      /\ ImprimirArvore(r.arvore, v) = ImprimirArvore(Arvore, v)
                      /\ \A k \in 0..MaxChaveLinhas :
                            BuscarSucessor(r.arvore, k, v)
                                = BuscarSucessor(Arvore, k, v)

\* C27: the latest version is always correct: after any sequence of insert
\* and remove calls (current_version < 99), the keys listed by
\* in_order(current_version) are exactly the set obtained by applying all
\* the calls in order to an empty set, listed in strictly ascending order.
C27_UltimaVersaoCorreta ==
    versao_atual < TamanhoRaizes - 1 =>
        /\ EstritamenteCrescente(ChavesDe(ImprimirArvore(Arvore, versao_atual)))
        /\ ChavesAtuais = ConjuntoApos(operacoes, Len(operacoes))

\* C27 witness: five calls, one of them the remove of a key from a tree of
\* three keys, and the latest version lists three keys again.
C27_Witness ==
    /\ versao_atual = 5
    /\ Cardinality(ChavesAtuais) = 3
    /\ \E i \in 1..Len(operacoes) :
          /\ operacoes[i][1] = "REM"
          /\ operacoes[i][2] \in ConjuntoApos(operacoes, i - 1)
          /\ Cardinality(ConjuntoApos(operacoes, i - 1)) = 3

\* C28: after insert calls only, for every version v in 0..current_version
\* all paths from roots[v] down to a missing child carry the same number of
\* BLACK nodes.
C28_AlturaPretaIgualInclusoes ==
    SoInclusoes =>
        \A v \in Versoes :
            \E altura \in 0..v : AlturasPretas(nos, Raiz(v), v) = {altura}

\* C28 witness: inserts only; one of them replaced the root by a
\* rebalancing rewrite, and the latest version has black height 2.
C28_Witness ==
    /\ SoInclusoes
    /\ versao_atual >= 4
    /\ AlturasPretas(nos, Raiz(versao_atual), versao_atual) = {2}
    /\ \E v \in 2..versao_atual : Raiz(v) # Raiz(v - 1)

\* C29: the root of every version has no parent: for every version v with
\* non-empty roots[v], roots[v].parent(v) is none.
C29_RaizSemPai ==
    \A v \in Versoes :
        Raiz(v) # None => ObterPai(nos, Raiz(v), v) = None

\* C30: parent and child links agree below the root: for every version v
\* and every node n reachable from roots[v], a left or right child c of n at
\* v has n as its parent at v.
C30_PaiDosFilhos ==
    \A v \in Versoes :
        \A n \in NosDaVersao(Arvore, v) :
            /\ ObterFilhoEsquerdo(nos, n, v) # None =>
                  ObterPai(nos, ObterFilhoEsquerdo(nos, n, v), v) = n
            /\ ObterFilhoDireito(nos, n, v) # None =>
                  ObterPai(nos, ObterFilhoDireito(nos, n, v), v) = n

\* C30 witness: after a remove that took a listed key, some version has a
\* node whose left child was under another parent in the version before.
C30_Witness ==
    /\ \E i \in 1..Len(operacoes) :
          /\ operacoes[i][1] = "REM"
          /\ operacoes[i][2] \in ConjuntoApos(operacoes, i - 1)
    /\ \E v \in 2..versao_atual : \E n \in NosDaVersao(Arvore, v) :
          /\ ObterFilhoEsquerdo(nos, n, v) # None
          /\ nos[ObterFilhoEsquerdo(nos, n, v)].versao_criacao < v
          /\ ObterPai(nos, ObterFilhoEsquerdo(nos, n, v), v - 1) # n
          /\ ObterPai(nos, ObterFilhoEsquerdo(nos, n, v), v) = n

\* C31: no dead node is reachable: after every insert or remove call, for
\* every version v in 0..current_version every node reachable from roots[v]
\* through the child links effective at v is alive at v.
C31_AlcancaveisAtivos ==
    [][\A v \in 0..versao_atual' :
          \A n \in NosDaVersao(ArvoreSeguinte, v) : EstaAtivo(nos', n, v)]_vars

\* C31 witness: a node removed at some version is dead from that version on,
\* is still reachable in the version before, and the latest version, two or
\* more calls later, has nodes again.
C31_Witness ==
    \E n \in 1..Len(nos) :
        /\ nos[n].versao_remocao # SemRemocao
        /\ nos[n].versao_remocao + 1 < versao_atual
        /\ n \in NosDaVersao(Arvore, nos[n].versao_remocao - 1)
        /\ n \notin NosDaVersao(Arvore, nos[n].versao_remocao)
        /\ NosDaVersao(Arvore, versao_atual) # {}

RECURSIVE VisitasDaSubarvore(_, _, _, _)
\* The nodes met walking down the child links effective at `versao` from
\* `no`, each as often as it is met, going at most `limite` links deep.
VisitasDaSubarvore(h, no, versao, limite) ==
    IF no = None THEN <<>>
    ELSE IF limite = 0 THEN <<no>>
    ELSE <<no>>
         \o VisitasDaSubarvore(h, ObterFilhoEsquerdo(h, no, versao), versao,
                               limite - 1)
         \o VisitasDaSubarvore(h, ObterFilhoDireito(h, no, versao), versao,
                               limite - 1)

\* The child links effective at v form a tree below roots[v] of the tree
\* object a: the walk, allowed one link more than there are nodes, meets no
\* node twice.
EhArvore(a, v) ==
    LET visitas == VisitasDaSubarvore(a.nos, ListaGet(a.raizes, v), v,
                                      Len(a.nos))
    IN  \A i \in 1..Len(visitas) : \A j \in 1..Len(visitas) :
            visitas[i] = visitas[j] => i = j

\* C32: every operation terminates: after every insert or remove call, for
\* every version v the child links effective at v form a finite tree rooted
\* at roots[v]: no cycle, no node reachable along two different paths.
C32_ElosFormamArvore ==
    [][\A v \in 0..versao_atual' : EhArvore(ArvoreSeguinte, v)]_vars

\* C32 witness: one version got a new root from a rebalancing rewrite, a
\* later one came from the remove of the key of a node with two children (the
\* key is no longer held by any node of the version before), and the latest
\* version is a tree of three nodes.
C32_Witness ==
    /\ Len(VisitasDaSubarvore(nos, Raiz(versao_atual), versao_atual,
                              Len(nos))) = 3
    /\ \E v \in 2..versao_atual :
          /\ operacoes[v][1] = "INC"
          /\ Raiz(v - 1) # None /\ Raiz(v) # Raiz(v - 1)
    /\ \E v \in 2..(versao_atual - 1) :
          /\ operacoes[v][1] = "REM"
          /\ operacoes[v][2] \in ConjuntoApos(operacoes, v - 1)
          /\ operacoes[v][2] \notin ChavesDaSubarvore(nos, Raiz(v - 1), v - 1)

\* The nodes whose removal version the step changed.
Retirados ==
    {n \in 1..Len(nos) : nos'[n].versao_remocao # nos[n].versao_remocao}

\* The node of the latest version that holds key k, and the node a remove of
\* k is to retire: that node, or the leftmost node of its right subtree when
\* it has two children.
NoDaChave(k) ==
    CHOOSE n \in NosDaVersao(Arvore, versao_atual) : nos[n].valor = k

NoARetirar(k) ==
    IF /\ ObterFilhoEsquerdo(nos, NoDaChave(k), versao_atual) # None
       /\ ObterFilhoDireito(nos, NoDaChave(k), versao_atual) # None
    THEN EncontrarMinimo(nos,
                         ObterFilhoDireito(nos, NoDaChave(k), versao_atual),
                         versao_atual)
    ELSE NoDaChave(k)

\* C33: node lifecycle per mutation producing version V': an insert of an
\* absent key creates exactly one node (birth V', no death) and retires
\* none; a remove of a present key creates no node and retires exactly one
\* node, alive until then, with death V' (the successor's node when the
\* node of the key has two children); a duplicate insert or a remove of an
\* absent key creates and retires none.
C33_CicloDeVidaDosNos ==
    [][/\ (PassoINC /\ UltimaOperacao[2] \notin ChavesAtuais) =>
              /\ Len(nos') = Len(nos) + 1
              /\ nos'[Len(nos')].versao_criacao = versao_atual'
              /\ nos'[Len(nos')].versao_remocao = SemRemocao
              /\ Retirados = {}
       /\ (PassoREM /\ UltimaOperacao[2] \in ChavesAtuais) =>
              /\ Len(nos') = Len(nos)
              /\ Retirados = {NoARetirar(UltimaOperacao[2])}
              /\ nos[NoARetirar(UltimaOperacao[2])].versao_remocao = SemRemocao
              /\ nos'[NoARetirar(UltimaOperacao[2])].versao_remocao
                    = versao_atual'
       /\ PassoSemEfeito =>
              /\ Len(nos') = Len(nos)
              /\ Retirados = {}]_vars

\* C33 witness: three nodes were created by three inserts, a remove retired
\* the successor's node (a live node of the latest version now holds the
\* retired node's key), and an insert of a present key followed.
C33_Witness ==
    /\ Len(nos) = 3
    /\ Len(operacoes) = 5
    /\ \E n \in 1..Len(nos) :
          /\ nos[n].versao_remocao # SemRemocao
          /\ \E m \in NosDaVersao(Arvore, versao_atual) :
                m # n /\ nos[m].valor = nos[n].valor
    /\ operacoes[5][1] = "INC"
    /\ operacoes[5][2] \in ConjuntoApos(operacoes, 4)

\* The versions stamped on node n of heap h: the keys of its three
\* histories, its creation version and its removal version if it has one.
CarimbosDe(h, n) ==
    (DOMAIN h[n].historico_cores) \cup (DOMAIN h[n].historico_filhos)
        \cup (DOMAIN h[n].historico_pais) \cup {h[n].versao_criacao}
        \cup (IF h[n].versao_remocao # SemRemocao
              THEN {h[n].versao_remocao} ELSE {})

\* Every version stamped on a node of the tree object a is <= its
\* versao_atual.
CarimbosProduzidos(a) ==
    \A n \in 1..Len(a.nos) :
        \A c \in CarimbosDe(a.nos, n) : c <= a.versao_atual

\* C34: history entries are stamped only with produced versions: after every
\* insert or remove call, completed or failed, every version key of every
\* node's colour, children and parent history and every node's birth and
\* death version is <= current_version.  (The calls that fail are those made
\* with the roots table full.)
C34_CarimbosAteVersaoAtual ==
    /\ CarimbosProduzidos(Arvore)
    /\ versao_atual = TamanhoRaizes - 1 =>
          \A partes \in LinhasMutacao :
              CarimbosProduzidos(ProcessarOperacao(Arvore, partes).arvore)

\* C35: setting one child preserves the other: definir_filho_esquerdo at
\* version v leaves the right child read at v equal to the right child
\* effective at v before the call, and definir_filho_direito leaves the left
\* child read at v unchanged, also when the node had no children entry at
\* exactly version v.
C35_OutroFilhoPreservado ==
    \A filho \in Vizinhos, v \in VersoesLidas :
        /\ ObterFilhoDireito(DefinirFilhoEsquerdo(nos, 1, filho, v), 1, v)
              = ObterFilhoDireito(nos, 1, v)
        /\ ObterFilhoEsquerdo(DefinirFilhoEsquerdo(nos, 1, filho, v), 1, v)
              = filho
        /\ ObterFilhoEsquerdo(DefinirFilhoDireito(nos, 1, filho, v), 1, v)
              = ObterFilhoEsquerdo(nos, 1, v)
        /\ ObterFilhoDireito(DefinirFilhoDireito(nos, 1, filho, v), 1, v)
              = filho

\* C35 witness: the node got a right child at a version below 2 and then a
\* left child at version 2, where it had no children entry: at version 2 it
\* reads both.
C35_Witness ==
    /\ Len(operacoes) = 3
    /\ operacoes[1][2] < 2
    /\ operacoes[2] = <<"filhos", 1, <<None, 2>>>>
    /\ operacoes[3] = <<"filhos", 2, <<2, 2>>>>
    /\ ObterFilhos(nos, 1, 2) = <<2, 2>>
    /\ ObterFilhos(nos, 1, 1) = <<None, 2>>

====
